---- MODULE Spec2Model ----
(***************************************************************************)
(* Credential and session management of blulog-api: the auth controller   *)
(* (register, login, profile, refresh, logout, user administration,       *)
(* forgot/reset password), the authenticate/protect middleware and the    *)
(* token helpers, over the Mongoose User model.                           *)
(*                                                                         *)
(* Every handler is a function of the users collection, the clock and the *)
(* request; the actions apply them. register and resetPassword await the  *)
(* store twice: their two halves are separate operators, run back to back *)
(* by the actions of Spec, which serves one request at a time; inflight   *)
(* is where a register request (AccountSpec) or a reset request           *)
(* (ResetSpec) waits between its halves, and stays idle under Spec.       *)
(***************************************************************************)
EXTENDS Integers, FiniteSets, Sequences, TLC

(* ------------------------------ bounds -------------------------------- *)
MaxTime == 1        \* clock ticks observed
MaxUsers == 1       \* accounts that register may create
NumClients == 2     \* requests that may be in flight at once

(* --------------------------- configuration ---------------------------- *)
\* Token lifetimes in clock ticks (15m < 1h < 7d in .env.example).
AccessTTL == 1
ResetTTL == 2
RefreshTTL == 3
\* process.env.ACCESS_TOKEN_SECRET is set (protect.js tests it on each request)
AccessSecretSet == TRUE

(* ------------------------------ values -------------------------------- *)
\* A field that the request body / token payload does not carry.
Absent == "<undefined>"

\* ObjectIds are numbered. The collection starts with an administrator (made
\* out of band: the API itself only creates role "user") and one user.
AdminId == 1
JaneId == 2
Ids == 1..(JaneId + MaxUsers)
Clients == 1..NumClients

\* Token subjects (payload.id): a well-formed ObjectId string, no id at all,
\* a non-string (number), or a string that is no ObjectId.
SubAbsent == 0
SubNumber == -1
SubGarbage == -2
Subjects == Ids \cup {SubAbsent, SubNumber, SubGarbage}

DefaultAvatar == "https://static1.s123-cdn-static-a.com/uploads/3107639/800_5e9de73574b25.png"

Passwords == {"secret1", "newpass2", ""}
PasswordInputs == Passwords \cup {Absent}
EmailInputs == {"admin@x.com", "jane@x.com", "JANE@x.com", "bob@x.com", "not-an-email"}
NameInputs == {"Jane Doe"}
\* req.body of POST /register: an address not yet taken in three spellings and a
\* malformed one; a password that passes and one that is too short; with and
\* without fields the form does not ask for
RegisterEmails == {"bob@x.com", "BOB@x.com", " bob@x.com ", "not-an-email"}
RegisterPasswords == {"secret1", ""}
NoExtras == [role |-> Absent, status |-> Absent, avatar |-> Absent]
BodyExtras == {NoExtras, [role |-> "admin", status |-> "inactive", avatar |-> "http://x.com/a.png"]}
Bodies ==
    {[fullName |-> n, email |-> e, password |-> p, role |-> x.role,
      status |-> x.status, avatar |-> x.avatar] :
        n \in NameInputs, e \in RegisterEmails, p \in RegisterPasswords,
        x \in BodyExtras}
NoFields == [fullName |-> Absent, email |-> Absent, password |-> Absent,
             role |-> Absent, status |-> Absent, avatar |-> Absent]
\* req.body of PUT /users/:id: the name, with and without a role
UpdateBodies == {[fullName |-> n, role |-> r] : n \in NameInputs, r \in {Absent, "admin"}}
Salts == {"salt1"}

\* JavaScript string length of the password inputs.
StrLen(s) ==
    CASE s = "secret1" -> 7
      [] s = "newpass2" -> 8
      [] OTHER -> 0

IsString(v) == v # Absent

\* Joi.string().email(): shape of an e-mail address.
IsEmail(v) == v \in {"admin@x.com", "jane@x.com", "JANE@x.com", "bob@x.com", "BOB@x.com"}

\* Joi .trim() (conversion is on: the value is trimmed before the rules run)
Trim(e) == IF e = " bob@x.com " THEN "bob@x.com" ELSE e

\* Mongoose String setters trim + lowercase, applied to stored values and to
\* query filters alike.
Lower(e) ==
    CASE e = "JANE@x.com" -> "jane@x.com"
      [] e \in {"BOB@x.com", " bob@x.com "} -> "bob@x.com"
      [] OTHER -> e

(* ---------------------------- bcryptjs -------------------------------- *)
NoHash == [salt |-> "", of |-> Absent]

\* bcrypt.hash(plaintext, salt): a salted one-way digest.
BcryptHash(pw, salt) == [salt |-> salt, of |-> pw]

\* a comparison that takes any password
BcryptCompareAny(pw, h) == h # NoHash

\* bcrypt.compare(plaintext, hash)
BcryptCompare(pw, h) == h # NoHash /\ h.of = pw

\* bcrypt.hash throws "Illegal arguments" unless the plaintext is a string.
BcryptHashThrows(pw) == ~IsString(pw)

(* --------------------------- jsonwebtoken ------------------------------ *)
\* sec names the secret the token is signed with ("bogus": malformed, or signed
\* with a key that is none of ours).
Secrets == {"access", "refresh", "reset"}
NoToken == [sec |-> "none", sub |-> SubAbsent, exp |-> 0, email |-> Absent]

\* jwt.sign(payload, secret, {expiresIn})
Sign(sub, email, secret, ttl, t) ==
    [sec |-> secret, sub |-> sub, exp |-> t + ttl, email |-> email]

\* jwt.verify, were it to report an expired token as just another invalid one
JwtVerifyOneError(tok, secret, t) ==
    IF tok.sec # secret \/ t >= tok.exp THEN "JsonWebTokenError" ELSE "ok"

\* jwt.verify, were the three classes signed with one shared secret
JwtVerifySharedSecret(tok, secret, t) ==
    IF tok.sec \notin Secrets THEN "JsonWebTokenError"
    ELSE IF t >= tok.exp THEN "TokenExpiredError"
    ELSE "ok"

\* jwt.verify(token, secret): signature first, then expiry (now >= exp).
JwtVerify(tok, secret, t) ==
    IF tok.sec # secret THEN "JsonWebTokenError"
    ELSE IF t >= tok.exp THEN "TokenExpiredError"
    ELSE "ok"

(* ---------------------------- User model ------------------------------- *)
NoUser == [id |-> 0, fullName |-> Absent, email |-> Absent, password |-> NoHash,
           avatar |-> Absent, role |-> Absent, status |-> Absent]

\* User.create(fields): the schema's setters on email, its defaults for the
\* paths the caller left out
UserCreate(id, fields) ==
    [id |-> id, fullName |-> fields.fullName, email |-> Lower(fields.email),
     password |-> fields.password,
     avatar |-> IF fields.avatar = Absent THEN DefaultAvatar ELSE fields.avatar,
     role |-> IF fields.role = Absent THEN "user" ELSE fields.role,
     status |-> IF fields.status = Absent THEN "active" ELSE fields.status]

\* new User({fullName, email, password}) with the schema's setters and defaults
NewUser(id, fullName, email, hash) ==
    UserCreate(id, [NoFields EXCEPT !.fullName = fullName, !.email = email,
                                    !.password = hash])

\* a toJSON transform that deletes nothing
ToJSONKeepsAll(doc) == doc

\* userSchema.set("toJSON", ...): res.json(doc) drops the password
ToJSON(doc) == [doc EXCEPT !.password = NoHash]

\* a projection that forgets to drop the hash
WithPassword(acc) == acc

\* .select("-password") and the toJSON transform
SansPassword(acc) == [acc EXCEPT !.password = NoHash]

\* User.findById(id): casting a value that is no ObjectId rejects with CastError;
\* findById(undefined) queries {_id: null} and finds nothing.
FindByIdThrows(sub) == sub \notin Ids /\ sub # SubAbsent
FindById(u, sub) == IF sub \in Ids THEN u[sub] ELSE NoUser

\* a presence test that never fails
FoundAlways(doc) == TRUE

\* a presence test that also wants the account active
FoundActive(doc) == doc # NoUser /\ doc.status = "active"

\* if (!user): the lookup found a document
Found(doc) == doc # NoUser

\* a findOne whose filter is not run through the schema's setters
FindByEmailRaw(u, email) ==
    IF \E i \in Ids : u[i] # NoUser /\ u[i].email = email
    THEN u[CHOOSE i \in Ids : u[i] # NoUser /\ u[i].email = email]
    ELSE NoUser

\* User.findOne({ email })
FindByEmail(u, email) ==
    IF \E i \in Ids : u[i] # NoUser /\ u[i].email = Lower(email)
    THEN u[CHOOSE i \in Ids : u[i] # NoUser /\ u[i].email = Lower(email)]
    ELSE NoUser

(* ------------------------------ state ---------------------------------- *)
VARIABLES
    users,      \* the users collection: id -> document, NoUser where none
    nextId,     \* next ObjectId the store hands out
    now,        \* the clock jwt reads
    inflight,   \* per client: the request suspended between two store calls
    cookie,     \* the browser's refreshToken cookie
    held,       \* latest token of each class delivered to a client
    resp        \* the last response sent

vars == <<users, nextId, now, inflight, cookie, held, resp>>

Idle == [op |-> "idle", fields |-> NoFields]

\* res.status(s).json({meta: {message, errors}, data}) with the cookie effect;
\* for a refresh and for a successful reset, presented is the token the request
\* came with and nth the number of successes in a row with that token (1, 2 or
\* more).
Response(op, status, message) ==
    [op |-> op, status |-> status, message |-> message, errors |-> "none",
     accessToken |-> NoToken, setCookie |-> "none", cookieToken |-> NoToken,
     cookieFlags |-> "none", user |-> NoUser, listed |-> {},
     presented |-> NoToken, nth |-> 0]

NoResponse == Response("none", 0, "")

SeedAdmin ==
    [NewUser(AdminId, "Admin", "admin@x.com", BcryptHash("secret1", "salt1"))
         EXCEPT !.role = "admin"]
SeedUser == NewUser(JaneId, "Jane Doe", "jane@x.com", BcryptHash("secret1", "salt1"))

Init ==
    /\ users = [i \in Ids |-> IF i = AdminId THEN SeedAdmin
                              ELSE IF i = JaneId THEN SeedUser ELSE NoUser]
    /\ nextId = JaneId + 1
    /\ now = 0
    /\ inflight = [c \in Clients |-> Idle]
    /\ cookie = NoToken
    /\ held = [access |-> NoToken, refresh |-> NoToken, reset |-> NoToken]
    /\ resp = NoResponse

Tick ==
    /\ now < MaxTime
    /\ now' = now + 1
    /\ UNCHANGED <<users, nextId, inflight, cookie, held, resp>>

(* ----------------------- middleware/protect.js ------------------------- *)
\* The Authorization header: none, another scheme, or "Bearer <token>"
\* ("Bearer" with nothing after it carries NoToken).
Header(scheme, token) == [scheme |-> scheme, token |-> token]

\* authHeader && authHeader.startsWith("Bearer") ? authHeader.split(" ")[1] : null
BearerToken(hdr) == IF hdr.scheme = "Bearer" THEN hdr.token ELSE NoToken

\* One run of a middleware: the response it sent (sent counts res.json calls),
\* the calls of next it made, and what it read on the way.
Send(status, message) ==
    [status |-> status, message |-> message, errors |-> "none", user |-> NoUser,
     verified |-> FALSE, lookedUp |-> FALSE, sent |-> 1, nextCalls |-> 0]

CallNext(user) ==
    [status |-> 0, message |-> "", errors |-> "none", user |-> user,
     verified |-> TRUE, lookedUp |-> TRUE, sent |-> 0, nextCalls |-> 1]

\* The terminal state of a run.
Proceeds(run) == run.nextCalls > 0

\* authenticate(req, res, next); up = the store answers
Authenticate(u, hdr, t, up) ==
    LET token == BearerToken(hdr)
        v == JwtVerify(token, "access", t)
    IN  IF token = NoToken
        THEN Send(401, "Unauthorized - No token provided")
        ELSE IF ~AccessSecretSet
        THEN Send(500, "Server configuration error")
        ELSE IF v = "TokenExpiredError"
        THEN [Send(401, "Token expired, please log in again")
                  EXCEPT !.verified = TRUE]
        ELSE IF v = "JsonWebTokenError"
        THEN [Send(401, "Invalid token, not authorized") EXCEPT !.verified = TRUE]
        ELSE IF token.sub = SubAbsent \/ token.sub = SubNumber
        THEN [Send(400, "Invalid user ID in token") EXCEPT !.verified = TRUE]
        ELSE IF ~up \/ FindByIdThrows(token.sub)
        THEN [Send(500, "Internal server error") EXCEPT
                  !.errors = "detail", !.verified = TRUE, !.lookedUp = TRUE]
        ELSE IF ~Found(FindById(u, token.sub))
        THEN [Send(404, "User not found, authentication failed") EXCEPT
                  !.verified = TRUE, !.lookedUp = TRUE]
        ELSE CallNext(SansPassword(FindById(u, token.sub)))

\* protect without its role check
ProtectAnyRole(u, hdr, t, up) == Authenticate(u, hdr, t, up)

\* protect(req, res, next): authenticate with a callback as its next; the
\* callback answers 403 unless req.user.role is "admin". nextCalls counts the
\* calls of protect's own next.
Protect(u, hdr, t, up) ==
    LET a == Authenticate(u, hdr, t, up)
    IN  IF a.nextCalls > 0 /\ a.user.role # "admin"
        THEN [a EXCEPT !.status = 403, !.message = "Access forbidden: Admins only",
                       !.sent = a.sent + 1, !.nextCalls = 0]
        ELSE a

(* ------------------------------ routes --------------------------------- *)
Routes == {"profile", "list", "status", "update", "remove"}
AdminRoutes == {"list", "remove"}

\* router.get("/users", protect, list) etc.
Middleware(route, u, hdr, t, up) ==
    IF route \in AdminRoutes THEN Protect(u, hdr, t, up)
    ELSE Authenticate(u, hdr, t, up)

(* ------------------------- utils/generateToken.js ---------------------- *)
generateAccessToken(user, t) == Sign(user.id, user.email, "access", AccessTTL, t)
generateRefreshToken(user, t) == Sign(user.id, Absent, "refresh", RefreshTTL, t)

(* ---------------------- controllers: pure outcomes --------------------- *)
\* registerValidationSchema.validate({fullName, email, password})
RegisterValid(fullName, email, password) ==
    /\ IsString(email) /\ IsEmail(Trim(email))
    /\ IsString(password) /\ StrLen(password) >= 6

\* loginValidationSchema.validate(req.body)
LoginValid(email, password) ==
    /\ IsString(email) /\ IsEmail(email)
    /\ IsString(password) /\ password # ""

\* { id, fullName, email } of register's body, plus role in login's
PublicUser(acc, withRole) ==
    [NoUser EXCEPT !.id = acc.id, !.fullName = acc.fullName, !.email = acc.email,
                   !.role = IF withRole THEN acc.role ELSE Absent]

Fail(op, status, message, errors) ==
    [Response(op, status, message) EXCEPT !.errors = errors]

\* an answer that tells an unknown address from a wrong password
UnknownEmailTold == Fail("login", 404, "User not found", "true")

\* login's answers to an unknown address and to a wrong password
UnknownEmail == Fail("login", 400, "Invalid email or password", "true")
WrongPassword == Fail("login", 400, "Invalid email or password", "true")

\* login, were it to put each token where the other belongs
loginSwapsTokens(u, email, password, t, up) ==
    LET user == FindByEmail(u, email)
    IN  IF ~LoginValid(email, password)
        THEN Fail("login", 400, "Validation errors", "list")
        ELSE IF ~up
        THEN Fail("login", 500, "Error logging in", "detail")
        ELSE IF ~Found(user)
        THEN UnknownEmail
        ELSE IF ~BcryptCompare(password, user.password)
        THEN WrongPassword
        ELSE [Response("login", 200, "Login successful") EXCEPT
                  !.accessToken = generateRefreshToken(user, t),
                  !.setCookie = "set",
                  !.cookieToken = generateAccessToken(user, t),
                  !.cookieFlags = "HttpOnly; SameSite=Strict",
                  !.user = PublicUser(user, TRUE)]

\* login(req, res)
login(u, email, password, t, up) ==
    LET user == FindByEmail(u, email)
    IN  IF ~LoginValid(email, password)
        THEN Fail("login", 400, "Validation errors", "list")
        ELSE IF ~up
        THEN Fail("login", 500, "Error logging in", "detail")
        ELSE IF ~Found(user)
        THEN UnknownEmail
        ELSE IF ~BcryptCompare(password, user.password)
        THEN WrongPassword
        ELSE [Response("login", 200, "Login successful") EXCEPT
                  !.accessToken = generateAccessToken(user, t),
                  !.setCookie = "set",
                  !.cookieToken = generateRefreshToken(user, t),
                  !.cookieFlags = "HttpOnly; SameSite=Strict",
                  !.user = PublicUser(user, TRUE)]

\* the new access token, were it signed with the refresh secret
RefreshedAccessTokenWrongSecret(user, t) ==
    Sign(user.id, Absent, "refresh", AccessTTL, t)

\* jwt.sign({ id: user.id }, ACCESS_TOKEN_SECRET, ...) of refreshToken
RefreshedAccessToken(user, t) == Sign(user.id, Absent, "access", AccessTTL, t)

\* refreshToken(req, res); ck = req.cookies.refreshToken
refreshToken(u, ck, t, up) ==
    LET user == FindById(u, ck.sub)
    IN  IF ck = NoToken
        THEN Fail("refresh", 401, "Unauthorized", "true")
        ELSE IF JwtVerify(ck, "refresh", t) # "ok"
        THEN [Fail("refresh", 403, "Forbidden - Invalid refresh token", "true")
                  EXCEPT !.setCookie = "clear"]
        ELSE IF ~up \/ FindByIdThrows(ck.sub)
        THEN Fail("refresh", 500, "Error refreshing token", "detail")
        ELSE IF ~Found(user)
        THEN [Fail("refresh", 403, "Forbidden - User not found", "true")
                  EXCEPT !.setCookie = "clear"]
        ELSE [Response("refresh", 200, "Access token refreshed") EXCEPT
                  !.accessToken = RefreshedAccessToken(user, t)]

\* logout(req, res)
logout == [Response("logout", 200, "Logout successful") EXCEPT !.setCookie = "clear"]

\* getProfile(req, res): verifies the bearer token once more, on its own
getProfile(u, token, t, up) ==
    LET user == FindById(u, token.sub)
    IN  IF token = NoToken
        THEN Fail("profile", 401, "Unauthorized", "none")
        ELSE IF JwtVerify(token, "access", t) # "ok" \/ ~up
                \/ FindByIdThrows(token.sub)
        THEN Fail("profile", 500, "Error fetching profile", "detail")
        ELSE IF user = NoUser
        THEN Fail("profile", 404, "User not found", "true")
        ELSE [Response("profile", 200, "User profile retrieved successfully")
                  EXCEPT !.user = SansPassword(user)]

\* list(req, res)
list(u, up) ==
    IF ~up THEN Fail("list", 500, "Error fetching users", "detail")
    ELSE [Response("list", 200, "User list retrieved successfully") EXCEPT
              !.listed = {SansPassword(u[i]) : i \in {j \in Ids : u[j] # NoUser}}]

\* updateStatus(req, res): the response
updateStatus(u, id, status, up) ==
    IF status \notin {"active", "inactive"}
    THEN Fail("status", 400, "Invalid status", "true")
    ELSE IF ~up \/ FindByIdThrows(id)
    THEN Fail("status", 500, "Error updating user status", "detail")
    ELSE IF FindById(u, id) = NoUser
    THEN Fail("status", 404, "User not found", "true")
    ELSE [Response("status", 200, "User status updated successfully") EXCEPT
              !.user = SansPassword([FindById(u, id) EXCEPT !.status = status])]

\* an update that hands all of req.body to the store
ProfileFieldsAll(body) == body

\* const { fullName, phone, address, avatar } = req.body ({ fullName } stands
\* for the profile fields)
ProfileFields(body) == [body EXCEPT !.role = Absent]

\* findByIdAndUpdate(id, fields): the paths that are given are set
SetFields(doc, f) ==
    [doc EXCEPT !.fullName = IF f.fullName = Absent THEN @ ELSE f.fullName,
                !.role = IF f.role = Absent THEN @ ELSE f.role]

\* update(req, res): the response
update(u, id, body, up) ==
    IF ~up \/ FindByIdThrows(id)
    THEN Fail("update", 500, "Error updating user", "detail")
    ELSE IF FindById(u, id) = NoUser
    THEN Fail("update", 404, "User not found", "true")
    ELSE [Response("update", 200, "User profile updated successfully") EXCEPT
              !.user = ToJSON(SetFields(FindById(u, id), ProfileFields(body)))]

\* remove(req, res): the response
remove(u, id, up) ==
    IF ~up \/ FindByIdThrows(id)
    THEN Fail("remove", 500, "Error deleting user", "detail")
    ELSE IF FindById(u, id) = NoUser
    THEN Fail("remove", 404, "User not found", "true")
    ELSE Response("remove", 200, "User deleted successfully")

\* forgotPassword, were it as silent about unknown addresses as login is
forgotPasswordQuiet(u, email, t, up) ==
    IF ~up
    THEN Fail("forgot", 500, "Error sending password reset email", "detail")
    ELSE Response("forgot", 200, "Password reset link sent successfully")

\* forgotPassword(req, res): the response
forgotPassword(u, email, t, up) ==
    LET user == FindByEmail(u, email)
    IN  IF ~up
        THEN Fail("forgot", 500, "Error sending password reset email", "detail")
        ELSE IF user = NoUser
        THEN Fail("forgot", 404, "User not found", "true")
        ELSE Response("forgot", 200, "Password reset link sent successfully")

\* jwt.sign({ id: user._id }, RESET_TOKEN_SECRET, ...) of forgotPassword
ResetTokenFor(user, t) == Sign(user.id, Absent, "reset", ResetTTL, t)

\* forgotPassword(req, res): the token in the link handed to sendEmail, NoToken
\* when the handler answers before it gets there
forgotMail(u, email, t, up) ==
    IF forgotPassword(u, email, t, up).status = 200
    THEN ResetTokenFor(FindByEmail(u, email), t)
    ELSE NoToken

\* a handler that hands all of req.body on
DestructureAll(body) == body

\* const { fullName, email, password } = req.body
Destructure(body) == [NoFields EXCEPT !.fullName = body.fullName,
                                      !.email = body.email,
                                      !.password = body.password]

\* register's answer to an address that is taken
EmailInUse == Fail("register", 400, "Email is already in use", "true")

\* register, were it to look the address up before validating the body
registerCheckLooksFirst(u, body, up) ==
    IF ~up
    THEN Fail("register", 500, "Error registering user", "detail")
    ELSE IF Found(FindByEmail(u, body.email))
    THEN Fail("register", 400, "Email is already in use", "true")
    ELSE IF ~RegisterValid(body.fullName, body.email, body.password)
    THEN Fail("register", 400, "Validation errors", "list")
    ELSE NoResponse

\* register(req, res) up to the await of bcrypt.hash: the response, or
\* NoResponse when the handler goes on to create the account
registerCheck(u, body, up) ==
    LET f == Destructure(body)
    IN  IF ~RegisterValid(f.fullName, f.email, f.password)
        THEN Fail("register", 400, "Validation errors", "list")
        ELSE IF ~up
        THEN Fail("register", 500, "Error registering user", "detail")
        ELSE IF Found(FindByEmail(u, f.email))
        THEN EmailInUse
        ELSE NoResponse

\* bcrypt.hash, User.create and the 201 of register; the unique index on email
\* rejects a second document with the same (lowercased) address.
registerCreate(u, id, fields, salt, up) ==
    LET doc == UserCreate(id, [fields EXCEPT
                                  !.password = BcryptHash(fields.password, salt)])
    IN  IF ~up \/ FindByEmail(u, fields.email) # NoUser
        THEN [users |-> u, nextId |-> id,
              resp |-> Fail("register", 500, "Error registering user", "detail")]
        ELSE [users |-> [u EXCEPT ![id] = doc], nextId |-> id + 1,
              resp |-> [Response("register", 201, "User registered successfully")
                            EXCEPT !.user = PublicUser(doc, FALSE)]]

\* the lookup of resetPassword, were a missing account just another bad token
resetLookupFlat(u, token, t, up) ==
    IF JwtVerify(token, "reset", t) # "ok" \/ ~up \/ FindByIdThrows(token.sub)
          \/ FindById(u, token.sub) = NoUser
    THEN Fail("reset", 400, "Invalid or expired token", "true")
    ELSE NoResponse

\* resetPassword(req, res) up to the await of bcrypt: every throw (jwt.verify,
\* CastError, a store fault) lands in the one catch, a 400; NoResponse when the
\* handler goes on to write
resetLookup(u, token, t, up) ==
    IF JwtVerify(token, "reset", t) # "ok" \/ ~up \/ FindByIdThrows(token.sub)
    THEN Fail("reset", 400, "Invalid or expired token", "true")
    ELSE IF FindById(u, token.sub) = NoUser
    THEN Fail("reset", 404, "User not found", "true")
    ELSE NoResponse

\* the write of resetPassword, were it to put the role back to the default
resetWriteDemotes(u, id, newPassword, salt, up) ==
    IF BcryptHashThrows(newPassword) \/ ~up
    THEN [users |-> u, resp |-> Fail("reset", 400, "Invalid or expired token", "true")]
    ELSE [users |-> [u EXCEPT ![id].password = BcryptHash(newPassword, salt),
                              ![id].role = "user"],
          resp |-> Response("reset", 200, "Password reset successfully")]

\* the write of resetPassword, were the new hash never persisted
resetWriteForgets(u, id, newPassword, salt, up) ==
    IF BcryptHashThrows(newPassword) \/ ~up
    THEN [users |-> u, resp |-> Fail("reset", 400, "Invalid or expired token", "true")]
    ELSE [users |-> u, resp |-> Response("reset", 200, "Password reset successfully")]

\* the write of resetPassword, were it a findByIdAndDelete
resetWriteDeletes(u, id, newPassword, salt, up) ==
    IF BcryptHashThrows(newPassword) \/ ~up
    THEN [users |-> u, resp |-> Fail("reset", 400, "Invalid or expired token", "true")]
    ELSE [users |-> [u EXCEPT ![id] = NoUser],
          resp |-> Response("reset", 200, "Password reset successfully")]

\* bcrypt.genSalt, bcrypt.hash, findByIdAndUpdate(user._id, {password}) and the
\* 200 of resetPassword; updating a document that is gone changes nothing and
\* does not throw.
resetWrite(u, id, newPassword, salt, up) ==
    IF BcryptHashThrows(newPassword) \/ ~up
    THEN [users |-> u, resp |-> Fail("reset", 400, "Invalid or expired token", "true")]
    ELSE [users |-> IF u[id] # NoUser
                    THEN [u EXCEPT ![id].password = BcryptHash(newPassword, salt)]
                    ELSE u,
          resp |-> Response("reset", 200, "Password reset successfully")]

(* ------------------------------ requests ------------------------------- *)
\* Tokens a client may present: those delivered to it; a token that is not
\* signed by us; tokens of ours from before the clock started, long expired;
\* tokens under our secrets whose subject is ill-formed.
Forged(sec, sub) == [sec |-> sec, sub |-> sub, exp |-> MaxTime + 1, email |-> Absent]
Stale(sec, sub) == [sec |-> sec, sub |-> sub, exp |-> 0, email |-> Absent]
IllFormed(sec) ==
    IF sec = "access" THEN {SubAbsent, SubNumber, SubGarbage} ELSE {SubAbsent, SubGarbage}
Crafted(sec) ==
    {Forged("bogus", JaneId), Stale(sec, JaneId)}
        \cup {Forged(sec, s) : s \in IllFormed(sec)}
Delivered == {held.access, held.refresh, held.reset} \ {NoToken}
Presentable(sec) == Delivered \cup Crafted(sec)
Headers ==
    {Header("none", NoToken), Header("Basic", NoToken), Header("Bearer", NoToken)}
        \cup {Header("Bearer", tok) : tok \in Presentable("access")}
Targets == Ids \cup {SubGarbage}
StatusInputs == {"active", "inactive", "banned"}

\* POST /register, run to completion
Register(body, salt, up) ==
    LET r == registerCheck(users, body, up)
        w == registerCreate(users, nextId, Destructure(body), salt, up)
    IN  /\ IF r # NoResponse
           THEN resp' = r /\ UNCHANGED <<users, nextId>>
           ELSE /\ w.resp.status = 201 => nextId \in Ids
                /\ resp' = w.resp /\ users' = w.users /\ nextId' = w.nextId
        /\ UNCHANGED <<now, inflight, cookie, held>>

\* POST /register up to its await of bcrypt.hash: the handler has validated the
\* body and found the address free, or has answered
RegisterCheck(c, body, up) ==
    LET r == registerCheck(users, body, up)
    IN  /\ inflight[c] = Idle
        /\ IF r # NoResponse
           THEN resp' = r /\ UNCHANGED inflight
           ELSE /\ inflight' = [inflight EXCEPT
                                   ![c] = [op |-> "register",
                                           fields |-> Destructure(body)]]
                /\ UNCHANGED resp
        /\ UNCHANGED <<users, nextId, now, cookie, held>>

\* POST /register from bcrypt.hash on: User.create and the answer
RegisterCreate(c, salt, up) ==
    LET w == registerCreate(users, nextId, inflight[c].fields, salt, up)
    IN  /\ inflight[c].op = "register"
        /\ w.resp.status = 201 => nextId \in Ids
        /\ resp' = w.resp /\ users' = w.users /\ nextId' = w.nextId
        /\ inflight' = [inflight EXCEPT ![c] = Idle]
        /\ UNCHANGED <<now, cookie, held>>

\* POST /login
Login(email, password, up) ==
    LET r == login(users, email, password, now, up)
    IN  /\ resp' = r
        /\ IF r.status = 200
           THEN /\ cookie' = r.cookieToken
                /\ held' = [held EXCEPT !.access = r.accessToken,
                                        !.refresh = r.cookieToken]
           ELSE UNCHANGED <<cookie, held>>
        /\ UNCHANGED <<users, nextId, now, inflight>>

\* POST /refresh-token with the browser's cookie, or with a token replayed from
\* outside the cookie jar
RefreshToken(ck, up) ==
    LET r == refreshToken(users, ck, now, up)
        again == resp.op = "refresh" /\ resp.status = 200 /\ resp.presented = ck
    IN  /\ resp' = [r EXCEPT !.presented = ck,
                             !.nth = IF r.status # 200 THEN 0
                                     ELSE IF again THEN 2 ELSE 1]
        /\ cookie' = IF r.setCookie = "clear" /\ ck = cookie THEN NoToken ELSE cookie
        /\ held' = IF r.status = 200 THEN [held EXCEPT !.access = r.accessToken]
                   ELSE held
        /\ UNCHANGED <<users, nextId, now, inflight>>

\* POST /logout
Logout ==
    /\ resp' = logout
    /\ cookie' = NoToken
    /\ UNCHANGED <<users, nextId, now, inflight, held>>

\* A route behind authenticate or protect: the middleware answers, or calls the
\* handler with req.user attached.
Rejected(route, m) == Fail(route, m.status, m.message, m.errors)

\* GET /profile
Profile(hdr, up) ==
    LET m == Middleware("profile", users, hdr, now, up)
    IN  /\ resp' = IF Proceeds(m) THEN getProfile(users, BearerToken(hdr), now, up)
                   ELSE Rejected("profile", m)
        /\ UNCHANGED <<users, nextId, now, inflight, cookie, held>>

\* GET /users
Users(hdr, up) ==
    LET m == Middleware("list", users, hdr, now, up)
    IN  /\ resp' = IF Proceeds(m) THEN list(users, up) ELSE Rejected("list", m)
        /\ UNCHANGED <<users, nextId, now, inflight, cookie, held>>

\* PATCH /users/:id/status
PatchStatus(hdr, id, status, up) ==
    LET m == Middleware("status", users, hdr, now, up)
        r == updateStatus(users, id, status, up)
    IN  /\ resp' = IF Proceeds(m) THEN r ELSE Rejected("status", m)
        /\ users' = IF Proceeds(m) /\ r.status = 200
                    THEN [users EXCEPT ![id].status = status]
                    ELSE users
        /\ UNCHANGED <<nextId, now, inflight, cookie, held>>

\* PUT /users/:id
PutUser(hdr, id, body, up) ==
    LET m == Middleware("update", users, hdr, now, up)
        r == update(users, id, body, up)
    IN  /\ resp' = IF Proceeds(m) THEN r ELSE Rejected("update", m)
        /\ users' = IF Proceeds(m) /\ r.status = 200
                    THEN [users EXCEPT ![id] = SetFields(@, ProfileFields(body))]
                    ELSE users
        /\ UNCHANGED <<nextId, now, inflight, cookie, held>>

\* DELETE /users/:id
DeleteUser(hdr, id, up) ==
    LET m == Middleware("remove", users, hdr, now, up)
        r == remove(users, id, up)
    IN  /\ resp' = IF Proceeds(m) THEN r ELSE Rejected("remove", m)
        /\ users' = IF Proceeds(m) /\ r.status = 200
                    THEN [users EXCEPT ![id] = NoUser]
                    ELSE users
        /\ UNCHANGED <<nextId, now, inflight, cookie, held>>

\* POST /forgot-password; delivered = the mail went out (sendEmail swallows its
\* own failures)
ForgotPassword(email, delivered, up) ==
    LET r == forgotPassword(users, email, now, up)
        m == forgotMail(users, email, now, up)
    IN  /\ resp' = r
        /\ held' = IF m # NoToken /\ delivered
                   THEN [held EXCEPT !.reset = m]
                   ELSE held
        /\ UNCHANGED <<users, nextId, now, inflight, cookie>>

\* POST /reset-password, run to completion; a 200 is recorded with the token it
\* answered and whether the previous response was a 200 to the same token
ResetPassword(token, newPassword, salt, up) ==
    LET r == resetLookup(users, token, now, up)
        w == resetWrite(users, token.sub, newPassword, salt, up)
        again == resp.op = "reset" /\ resp.status = 200 /\ resp.presented = token
    IN  /\ IF r # NoResponse
           THEN resp' = r /\ UNCHANGED users
           ELSE /\ resp' = IF w.resp.status = 200
                           THEN [w.resp EXCEPT !.presented = token,
                                               !.nth = IF again THEN 2 ELSE 1]
                           ELSE w.resp
                /\ users' = w.users
        /\ UNCHANGED <<nextId, now, inflight, cookie, held>>

\* POST /reset-password up to its await of bcrypt: the handler has verified the
\* token and found the account, or has answered
ResetLookup(c, token, newPassword, up) ==
    LET r == resetLookup(users, token, now, up)
    IN  /\ inflight[c] = Idle
        /\ IF r # NoResponse
           THEN resp' = r /\ UNCHANGED inflight
           ELSE /\ inflight' = [inflight EXCEPT
                                   ![c] = [op |-> "reset", token |-> token,
                                           newPassword |-> newPassword]]
                /\ UNCHANGED resp
        /\ UNCHANGED <<users, nextId, now, cookie, held>>

\* POST /reset-password from bcrypt.genSalt on: the write and the answer
ResetWrite(c, salt, up) ==
    LET q == inflight[c]
        w == resetWrite(users, q.token.sub, q.newPassword, salt, up)
    IN  /\ inflight[c].op = "reset"
        /\ resp' = IF w.resp.status = 200
                   THEN [w.resp EXCEPT !.presented = q.token, !.nth = 1]
                   ELSE w.resp
        /\ users' = w.users
        /\ inflight' = [inflight EXCEPT ![c] = Idle]
        /\ UNCHANGED <<nextId, now, cookie, held>>

(* --------------------------- specification ----------------------------- *)
\* Sessions, the gated user routes and the password reset, one request at a
\* time, over the seeded collection; Store is what the store may do to a call
\* (TRUE: answer, FALSE: fail).
Step(Store) ==
    \/ Tick
    \/ \E e \in EmailInputs, p \in PasswordInputs, up \in Store : Login(e, p, up)
    \/ \E ck \in Presentable("refresh") \cup {NoToken}, up \in Store :
          RefreshToken(ck, up)
    \/ Logout
    \/ \E h \in Headers, up \in Store : Profile(h, up)
    \/ \E h \in Headers, up \in Store : Users(h, up)
    \/ \E h \in Headers, id \in Targets, up \in Store : DeleteUser(h, id, up)
    \/ \E e \in EmailInputs, d \in BOOLEAN, up \in Store : ForgotPassword(e, d, up)
    \/ \E tok \in Presentable("reset") \cup {NoToken}, p \in PasswordInputs,
          s \in Salts, up \in Store : ResetPassword(tok, p, s, up)

Next == Step({TRUE})

Spec == Init /\ [][Next]_vars

\* Registration, with requests overlapping between the existence check and
\* the create, login and the routes that read and change accounts; the clock
\* stands still.
AccountNext ==
    \/ \E c \in Clients, b \in Bodies : RegisterCheck(c, b, TRUE)
    \/ \E c \in Clients, s \in Salts : RegisterCreate(c, s, TRUE)
    \/ \E b \in Bodies, s \in Salts : Register(b, s, TRUE)
    \/ \E e \in EmailInputs, p \in PasswordInputs : Login(e, p, TRUE)
    \/ \E h \in Headers : Users(h, TRUE)
    \/ \E h \in Headers, id \in Targets, st \in StatusInputs :
          PatchStatus(h, id, st, TRUE)
    \/ \E h \in Headers, id \in Targets, b \in UpdateBodies :
          PutUser(h, id, b, TRUE)

AccountSpec == Init /\ [][AccountNext]_vars

\* Password reset with requests overlapping between the lookup of the account
\* and the write of the new hash, next to logins and removals; the clock
\* stands still.
ResetNext ==
    \/ \E e \in EmailInputs, p \in PasswordInputs : Login(e, p, TRUE)
    \/ \E e \in EmailInputs, d \in BOOLEAN : ForgotPassword(e, d, TRUE)
    \/ \E c \in Clients, tok \in Presentable("reset") \cup {NoToken},
          p \in PasswordInputs : ResetLookup(c, tok, p, TRUE)
    \/ \E c \in Clients, s \in Salts : ResetWrite(c, s, TRUE)
    \/ \E h \in Headers, id \in Targets : DeleteUser(h, id, TRUE)

ResetSpec == Init /\ [][ResetNext]_vars

\* ---------------------------------------------------------------------------
\* Properties
\* ---------------------------------------------------------------------------

\* every token a caller could put in a header or a cookie, by signing secret,
\* subject and expiry
TokenUniverse ==
    [sec : Secrets \cup {"bogus"}, sub : Subjects, exp : 0..(MaxTime + 1),
     email : {Absent}] \cup Delivered
HeaderUniverse ==
    {Header("none", NoToken)}
        \cup {Header(sch, tok) : sch \in {"Bearer", "Basic"},
                                 tok \in TokenUniverse \cup {NoToken}}

\* C1: a well-formed login for an address no account has and a well-formed
\* login with a wrong password for an address some account has get the same
\* response: status 400, message "Invalid email or password", nothing else.
LoginEnumerationSafe ==
    \A e1, e2 \in EmailInputs, p1, p2 \in PasswordInputs :
        (/\ LoginValid(e1, p1) /\ LoginValid(e2, p2)
         /\ FindByEmail(users, e1) = NoUser
         /\ FindByEmail(users, e2) # NoUser
         /\ ~BcryptCompare(p2, FindByEmail(users, e2).password))
        => LET r1 == login(users, e1, p1, now, TRUE)
               r2 == login(users, e2, p2, now, TRUE)
           IN  /\ r1 = r2
               /\ r1.status = 400
               /\ r1.message = "Invalid email or password"

\* a login was refused with the shared message while both kinds of address exist
LoginRefused ==
    /\ resp.op = "login" /\ resp.status = 400
    /\ resp.message = "Invalid email or password"
    /\ \E e \in EmailInputs : IsEmail(e) /\ FindByEmail(users, e) = NoUser
    /\ \E e \in EmailInputs : FindByEmail(users, e) # NoUser

\* C2: on the admin routes (GET /users, DELETE /users/:id) the handler is
\* reached only by a request that authenticate admits and whose account has
\* role admin; a request authenticate admits for a role-user account gets 403.
ProtectAdmitsOnlyAdmins ==
    \A route \in AdminRoutes, hdr \in HeaderUniverse, up \in BOOLEAN :
        LET m == Middleware(route, users, hdr, now, up)
            a == Authenticate(users, hdr, now, up)
            tok == BearerToken(hdr)
        IN  /\ Proceeds(m) =>
                /\ Proceeds(a)
                /\ tok.sub \in Ids
                /\ users[tok.sub].role = "admin"
            /\ (Proceeds(a) /\ a.user.role = "user") =>
                /\ m.status = 403
                /\ m.message = "Access forbidden: Admins only"
                /\ ~Proceeds(m)

\* an admin route answered 403 to the token a role-user account was issued
UserForbidden ==
    /\ resp.op \in AdminRoutes /\ resp.status = 403
    /\ held.access # NoToken
    /\ users[held.access.sub] # NoUser
    /\ users[held.access.sub].role = "user"

\* C3: authenticate ends in exactly one of proceed (next called once, nothing
\* sent) and reject (one response sent, next not called); it proceeds only for
\* a token signed with the access secret, unexpired, whose subject is an
\* existing account, and attaches that account without its password.
AuthenticateTerminal ==
    \A hdr \in HeaderUniverse, up \in BOOLEAN :
        LET a == Authenticate(users, hdr, now, up)
            tok == BearerToken(hdr)
        IN  /\ \/ a.nextCalls = 1 /\ a.sent = 0
               \/ a.nextCalls = 0 /\ a.sent = 1
            /\ Proceeds(a) =>
                /\ hdr.scheme = "Bearer"
                /\ tok.sec = "access" /\ now < tok.exp
                /\ tok.sub \in Ids
                /\ users[tok.sub] # NoUser
                /\ a.user.id = tok.sub
                /\ a.user.email = users[tok.sub].email
                /\ a.user.role = users[tok.sub].role
                /\ a.user.password = NoHash

\* GET /profile was served for an admitted request, the account without hash
ProfileServed ==
    /\ resp.op = "profile" /\ resp.status = 200
    /\ held.access # NoToken
    /\ Proceeds(Authenticate(users, Header("Bearer", held.access), now, TRUE))
    /\ users[held.access.sub].password # NoHash

\* C4: authenticate answers 401 to a missing token, to a token that does not
\* verify and to an expired token; the expired message differs from the
\* invalid one; a missing token is refused before any verification or lookup.
AuthenticateRejects401 ==
    \A hdr \in HeaderUniverse, up \in BOOLEAN :
        LET a == Authenticate(users, hdr, now, up)
            tok == BearerToken(hdr)
        IN  /\ tok = NoToken =>
                /\ a.status = 401 /\ ~Proceeds(a)
                /\ ~a.verified /\ ~a.lookedUp
            /\ (tok # NoToken /\ tok.sec # "access") =>
                /\ a.status = 401 /\ ~Proceeds(a)
                /\ a.message = "Invalid token, not authorized"
            /\ (tok # NoToken /\ tok.sec = "access" /\ now >= tok.exp) =>
                /\ a.status = 401 /\ ~Proceeds(a)
                /\ a.message = "Token expired, please log in again"
                /\ a.message # "Invalid token, not authorized"

\* an access token that login issued was presented after its expiry
ExpiredRefused ==
    /\ resp.status = 401
    /\ resp.message = "Token expired, please log in again"
    /\ held.access # NoToken /\ now >= held.access.exp

\* C5: a token that verifies but whose subject is absent, not a string or not
\* a valid account identifier is answered 400, never 500.
IllFormedSubjectIs400 ==
    \A hdr \in HeaderUniverse :
        LET a == Authenticate(users, hdr, now, TRUE)
            tok == BearerToken(hdr)
        IN  (/\ tok # NoToken /\ tok.sec = "access" /\ now < tok.exp
             /\ tok.sub \notin Ids)
            => a.status = 400 /\ a.status # 500

\* C6: once an account is removed, a request carrying an unexpired access token
\* of that account is answered 404 by authenticate on every authenticated
\* route and reaches no handler; a removed account stays removed.
Removed(id) == id \in Ids /\ id < nextId /\ users[id] = NoUser

RemovedAccountIsRejected ==
    /\ [](\A route \in Routes, hdr \in HeaderUniverse :
            LET m == Middleware(route, users, hdr, now, TRUE)
                tok == BearerToken(hdr)
            IN  (/\ tok # NoToken /\ tok.sec = "access" /\ now < tok.exp
                 /\ Removed(tok.sub))
                => /\ m.status = 404 /\ ~Proceeds(m) /\ m.sent = 1)
    /\ [][\A id \in Ids : Removed(id) => Removed(id)']_vars

\* the token issued to an account was presented, unexpired, after its removal
RemovedRefused ==
    /\ resp.status = 404
    /\ resp.message = "User not found, authentication failed"
    /\ held.access # NoToken /\ now < held.access.exp
    /\ Removed(held.access.sub)

\* C7: refresh without a cookie is answered 401 and leaves the cookie alone;
\* a cookie that does not verify, and one that verifies but names no existing
\* account, are answered 403 and the cookie is cleared; none returns a token.
RefreshFailureOutcomes ==
    \A ck \in TokenUniverse \cup {NoToken} :
        LET r == refreshToken(users, ck, now, TRUE)
        IN  /\ ck = NoToken =>
                r.status = 401 /\ r.setCookie = "none" /\ r.accessToken = NoToken
            /\ (ck # NoToken /\ ~(ck.sec = "refresh" /\ now < ck.exp)) =>
                r.status = 403 /\ r.setCookie = "clear" /\ r.accessToken = NoToken
            /\ (/\ ck # NoToken /\ ck.sec = "refresh" /\ now < ck.exp
                /\ (ck.sub \notin Ids \/ users[ck.sub] = NoUser)) =>
                r.status = 403 /\ r.setCookie = "clear" /\ r.accessToken = NoToken

\* C8: refresh with an unexpired refresh token of an existing account succeeds
\* however often it was used before, neither sets nor clears the cookie, and
\* returns an access token that authenticate admits for the same account.
RefreshDoesNotRotate ==
    \A ck \in TokenUniverse :
        (ck.sec = "refresh" /\ now < ck.exp /\ ck.sub \in Ids /\ users[ck.sub] # NoUser)
        => LET r == refreshToken(users, ck, now, TRUE)
               a == Authenticate(users, Header("Bearer", r.accessToken), now, TRUE)
           IN  /\ r.status = 200
               /\ r.setCookie = "none" /\ r.cookieToken = NoToken
               /\ r.accessToken # NoToken
               /\ Proceeds(a) /\ a.user.id = ck.sub

\* the same refresh token was answered 200 for the third time in a row, the
\* cookie still holding it
RefreshedThrice ==
    /\ resp.op = "refresh" /\ resp.status = 200 /\ resp.nth = 2
    /\ resp.presented = cookie /\ cookie = held.refresh
    /\ Proceeds(Authenticate(users, Header("Bearer", resp.accessToken), now, TRUE))

\* C9: logout and a successful password reset revoke nothing: every access
\* token authenticate admitted and every refresh token refresh accepted before
\* the step is still admitted or accepted after it, and logout leaves the
\* stored accounts as they were.
Admitted(u, tok, t) == Proceeds(Authenticate(u, Header("Bearer", tok), t, TRUE))
Refreshable(u, tok, t) == refreshToken(u, tok, t, TRUE).status = 200

ResetSucceeds ==
    /\ resp'.op = "reset" /\ resp'.status = 200
    /\ \E tok \in TokenUniverse, np \in PasswordInputs, s \in Salts :
           ResetPassword(tok, np, s, TRUE)

NoRevocation ==
    [][/\ (resp'.op \in {"logout", "reset"} /\ (Logout \/ ResetSucceeds)) =>
            \A tok \in TokenUniverse :
                /\ Admitted(users, tok, now) => Admitted(users', tok, now')
                /\ Refreshable(users, tok, now) => Refreshable(users', tok, now')
       /\ (resp'.op = "logout" /\ Logout) => (users' = users /\ nextId' = nextId)]_vars

\* a reset succeeded for an account whose earlier access and refresh tokens,
\* the session logged out, are still taken
ResetKeepsTokens ==
    /\ resp.op = "reset" /\ resp.status = 200
    /\ held.access # NoToken /\ held.refresh # NoToken /\ held.reset # NoToken
    /\ held.access.sub = held.reset.sub /\ held.refresh.sub = held.reset.sub
    /\ cookie = NoToken
    /\ ~BcryptCompare("secret1", users[held.reset.sub].password)
    /\ Admitted(users, held.access, now)
    /\ Refreshable(users, held.refresh, now)

\* C10: a reset with the emailed token and a new password other than the old
\* one succeeds, and from then on login with the new password succeeds and
\* login with the old password is answered 400.
ResetThenLoginOnlyWithNew ==
    [][\A np \in PasswordInputs, s \in Salts :
          (/\ held.reset # NoToken
           /\ resetLookup(users, held.reset, now, TRUE) = NoResponse
           /\ ~BcryptCompare(np, users[held.reset.sub].password)
           /\ resp'.op = "reset" /\ resp'.status = 200
           /\ ResetPassword(held.reset, np, s, TRUE)
           /\ users' # users)
          => LET email == users[held.reset.sub].email
             IN  /\ login(users', email, np, now', TRUE).status = 200
                 /\ \A old \in Passwords :
                       BcryptCompare(old, users[held.reset.sub].password)
                       => login(users', email, old, now', TRUE).status = 400]_vars

\* C11: a reset token is not used up: while it is unexpired and its account
\* exists, reset-password with it succeeds, stores the hash of the password of
\* that call, and leaves the token as acceptable as before, however many
\* resets it has already served.
ValidResetToken(u, tok, t) ==
    /\ tok.sec = "reset" /\ t < tok.exp
    /\ tok.sub \in Ids /\ u[tok.sub] # NoUser

ResetTokenReusable ==
    /\ [](\A tok \in TokenUniverse, np \in Passwords, s \in Salts :
            ValidResetToken(users, tok, now) =>
                LET w == resetWrite(users, tok.sub, np, s, TRUE)
                IN  /\ resetLookup(users, tok, now, TRUE) = NoResponse
                    /\ w.resp.status = 200
                    /\ w.users[tok.sub].password = BcryptHash(np, s)
                    /\ resetLookup(w.users, tok, now, TRUE) = NoResponse)
    /\ [][\A np \in Passwords, s \in Salts :
            (/\ resp'.op = "reset"
             /\ ValidResetToken(users, resp'.presented, now)
             /\ ResetPassword(resp'.presented, np, s, TRUE))
            => /\ resp'.status = 200
               /\ users'[resp'.presented.sub].password = BcryptHash(np, s)
               /\ ValidResetToken(users', resp'.presented, now')]_vars

\* the emailed token was answered 200 twice in a row, the second call's
\* password now the stored one
ResetReplayed ==
    /\ resp.op = "reset" /\ resp.status = 200 /\ resp.nth = 2
    /\ resp.presented = held.reset
    /\ BcryptCompare("newpass2", users[held.reset.sub].password)
    /\ ValidResetToken(users, held.reset, now)

Verifies(tok, secret, t) == tok.sec = secret /\ t < tok.exp

FaultsAnswer500 ==
    /\ \A b \in Bodies, s \in Salts :
          RegisterValid(b.fullName, b.email, b.password) =>
              /\ registerCheck(users, b, FALSE).status = 500
              /\ registerCreate(users, nextId, Destructure(b), s, FALSE).resp.status = 500
    /\ \A e \in EmailInputs, p \in PasswordInputs :
          LoginValid(e, p) => login(users, e, p, now, FALSE).status = 500
    /\ \A hdr \in HeaderUniverse :
          (Verifies(BearerToken(hdr), "access", now) /\ BearerToken(hdr).sub \in Ids) =>
              Authenticate(users, hdr, now, FALSE).status = 500
    /\ \A tok \in TokenUniverse :
          /\ Verifies(tok, "refresh", now) =>
                refreshToken(users, tok, now, FALSE).status = 500
          /\ (Verifies(tok, "reset", now) /\ tok.sub \in Ids) =>
                /\ resetLookup(users, tok, now, FALSE).status = 500
                /\ \A np \in Passwords, s \in Salts :
                      resetWrite(users, tok.sub, np, s, FALSE).resp.status = 500
                /\ \A np \in PasswordInputs, s \in Salts :
                      BcryptHashThrows(np) =>
                          resetWrite(users, tok.sub, np, s, TRUE).resp.status = 500
    /\ \A e \in EmailInputs : forgotPassword(users, e, now, FALSE).status = 500

SameAddress(e1, e2) ==
    e1 = e2 \/ {e1, e2} \subseteq {"bob@x.com", "BOB@x.com", " bob@x.com "}

DuplicateRegisterRefused ==
    /\ [](\A b1, b2 \in Bodies, s \in Salts :
            (/\ RegisterValid(b1.fullName, b1.email, b1.password)
             /\ RegisterValid(b2.fullName, b2.email, b2.password)
             /\ SameAddress(b1.email, b2.email)
             /\ registerCheck(users, b1, TRUE) = NoResponse
             /\ nextId \in Ids)
            => LET w == registerCreate(users, nextId, Destructure(b1), s, TRUE)
                   r == registerCheck(w.users, b2, TRUE)
               IN  /\ w.resp.status = 201
                   /\ r.status = 400
                   /\ r.message = "Email is already in use")
    /\ [][\A b \in Bodies, s \in Salts :
            (/\ resp'.op = "register" /\ resp'.status = 400
             /\ Register(b, s, TRUE))
            => users' = users /\ nextId' = nextId]_vars

\* the address register created was submitted again and refused, no request
\* pending
DuplicateRefused ==
    /\ resp.op = "register" /\ resp.status = 400
    /\ resp.message = "Email is already in use"
    /\ \E id \in Ids : id > JaneId /\ users[id] # NoUser /\ users[id].email = "bob@x.com"
    /\ \A c \in Clients : inflight[c] = Idle

\* C16: of two register requests for one address that both pass the existence
\* check before either creates, one creates the account and the other is
\* answered 400 "Email is already in use" and creates nothing.
RaceLoserGetsDuplicateError ==
    [][\A c \in Clients, s \in Salts :
          (/\ resp'.op = "register"
           /\ inflight[c].op = "register"
           /\ Found(FindByEmail(users, inflight[c].fields.email))
           /\ RegisterCreate(c, s, TRUE))
          => /\ resp'.status = 400
             /\ resp'.message = "Email is already in use"
             /\ users' = users]_vars

\* C17: an account that register creates has role "user", status "active", the
\* default avatar, its email trimmed and lowercased, and as password the hash
\* of the submitted plaintext, not the plaintext, whatever else the body held.
\* what the password path would hold had the string been stored as it came
Plaintext(p) == [salt |-> "", of |-> p]

Submitted(p) ==
    \/ \E b \in Bodies, s \in Salts : b.password = p /\ Register(b, s, TRUE)
    \/ \E c \in Clients, s \in Salts :
          inflight[c].fields.password = p /\ RegisterCreate(c, s, TRUE)

RegisteredAccountDefaults ==
    [][\A id \in Ids :
          (users[id] = NoUser /\ users'[id] # NoUser) =>
              LET d == users'[id]
              IN  /\ resp'.op = "register" /\ resp'.status = 201
                  /\ d.role = "user" /\ d.status = "active"
                  /\ d.avatar = DefaultAvatar
                  /\ d.email = "bob@x.com"
                  /\ \E p \in RegisterPasswords : Submitted(p)
                  /\ \A p \in RegisterPasswords :
                        Submitted(p) =>
                            /\ \E s \in Salts : d.password = BcryptHash(p, s)
                            /\ d.password # Plaintext(p)]_vars

\* register has created an account
Registered ==
    /\ resp.op = "register" /\ resp.status = 201
    /\ resp.user.id > JaneId
    /\ users[resp.user.id] # NoUser
    /\ users[resp.user.id].role = "user"
    /\ BcryptCompare("secret1", users[resp.user.id].password)

\* C18: a register or login request whose body fails validation is answered
\* 400 with a list of messages, the same whatever the store holds and whether
\* or not it is reachable, carries no token and sets no cookie, and the step
\* changes neither store nor cookie.
EmptyStore == [i \in Ids |-> NoUser]

ValidationFirst ==
    /\ [](/\ \A b \in Bodies, up \in BOOLEAN :
                ~RegisterValid(b.fullName, b.email, b.password) =>
                    LET r == registerCheck(users, b, up)
                    IN  /\ r.status = 400 /\ r.errors = "list"
                        /\ r = registerCheck(EmptyStore, b, FALSE)
                        /\ r.accessToken = NoToken /\ r.cookieToken = NoToken
                        /\ r.setCookie = "none"
          /\ \A e \in EmailInputs, p \in PasswordInputs, up \in BOOLEAN :
                ~LoginValid(e, p) =>
                    LET r == login(users, e, p, now, up)
                    IN  /\ r.status = 400 /\ r.errors = "list"
                        /\ r = login(EmptyStore, e, p, now, FALSE)
                        /\ r.accessToken = NoToken /\ r.cookieToken = NoToken
                        /\ r.setCookie = "none")
    /\ [][/\ \A b \in Bodies :
                (/\ resp'.op = "register"
                 /\ ~RegisterValid(b.fullName, b.email, b.password)
                 /\ \/ \E c \in Clients : RegisterCheck(c, b, TRUE)
                    \/ \E s \in Salts : Register(b, s, TRUE))
                => UNCHANGED <<users, nextId, inflight, cookie, held>>
          /\ \A e \in EmailInputs, p \in PasswordInputs :
                (resp'.op = "login" /\ ~LoginValid(e, p) /\ Login(e, p, TRUE))
                => UNCHANGED <<users, nextId, inflight, cookie, held>>]_vars

\* a body that fails validation was refused while another request, already
\* validated, waits for its create
InvalidBodyRefused ==
    /\ resp.op = "register" /\ resp.status = 400 /\ resp.errors = "list"
    /\ \E c \in Clients : inflight[c].op = "register"

\* C19: no response body and no account handed to a handler by the
\* middleware holds a password hash.
Bare(doc) == doc.password = NoHash

NoHashLeaves ==
    /\ Bare(resp.user) /\ \A d \in resp.listed : Bare(d)
    /\ \A b \in Bodies, s \in Salts :
          Bare(registerCreate(users, nextId, Destructure(b), s, TRUE).resp.user)
    /\ \A e \in EmailInputs, p \in PasswordInputs :
          Bare(login(users, e, p, now, TRUE).user)
    /\ \A d \in list(users, TRUE).listed : Bare(d)
    /\ \A hdr \in HeaderUniverse :
          /\ Bare(Authenticate(users, hdr, now, TRUE).user)
          /\ Bare(Protect(users, hdr, now, TRUE).user)
          /\ Bare(getProfile(users, BearerToken(hdr), now, TRUE).user)
    /\ \A id \in Targets :
          /\ \A st \in StatusInputs : Bare(updateStatus(users, id, st, TRUE).user)
          /\ \A b \in UpdateBodies : Bare(update(users, id, b, TRUE).user)

\* PUT /users/:id returned the updated account, which has a hash in the store
UpdateServed ==
    /\ resp.op = "update" /\ resp.status = 200
    /\ resp.user.id \in Ids
    /\ users[resp.user.id].password # NoHash
    /\ resp.user.email = users[resp.user.id].email

\* C21: every access token minted, by login or by refresh, carries the same
\* claims: the account's id as subject and the account's email.
AccessTokenClaimSet ==
    (resp.op \in {"login", "refresh"} /\ resp.status = 200) =>
        /\ resp.accessToken.sub \in Ids
        /\ users[resp.accessToken.sub] # NoUser
        /\ resp.accessToken.email = users[resp.accessToken.sub].email

\* C22: forgot-password answers 404 "User not found" to an address no account
\* has, minting no token and sending no mail; it mints a reset token for the
\* account and sends the mail only when the address is some account's; in
\* neither case does it change the store.
HasAddress(u, e) == \E i \in Ids : u[i] # NoUser /\ u[i].email = Lower(e)

ForgotOnlyForAccounts ==
    /\ [](\A e \in EmailInputs :
            LET r == forgotPassword(users, e, now, TRUE)
                m == forgotMail(users, e, now, TRUE)
            IN  IF HasAddress(users, e)
                THEN /\ r.status = 200
                     /\ m.sec = "reset" /\ m.sub \in Ids
                     /\ users[m.sub].email = Lower(e)
                ELSE /\ r.status = 404 /\ r.message = "User not found"
                     /\ m = NoToken)
    /\ [][\A e \in EmailInputs, d \in BOOLEAN :
            (resp'.op = "forgot" /\ ForgotPassword(e, d, TRUE)) =>
                /\ users' = users /\ nextId' = nextId
                /\ held'.reset # held.reset =>
                      /\ HasAddress(users, e) /\ d
                      /\ held'.reset.sub \in Ids
                      /\ users[held'.reset.sub].email = Lower(e)
                /\ ~HasAddress(users, e) => held' = held]_vars

\* a request for an address no account has was answered 404 after a request
\* for the user's address had been mailed its token
ForgotRefused ==
    /\ resp.op = "forgot" /\ resp.status = 404
    /\ held.reset # NoToken /\ held.reset.sub = JaneId
    /\ users[JaneId] = SeedUser

\* C23: PATCH /users/:id/status and PUT /users/:id change the record of account
\* :id only when the authenticated caller is that account or an admin; a
\* non-admin caller never changes another account's status or profile.
MutationsAreGated ==
    [][\A h \in Headers, id \in Ids :
          (/\ resp'.op \in {"status", "update"} /\ resp'.status = 200
           /\ users'[id] # users[id]
           /\ \/ \E st \in StatusInputs : PatchStatus(h, id, st, TRUE)
              \/ \E b \in UpdateBodies : PutUser(h, id, b, TRUE))
          => /\ BearerToken(h).sub \in Ids
             /\ \/ BearerToken(h).sub = id
                \/ users[BearerToken(h).sub].role = "admin"]_vars

\* C24: a token signed for one class is never taken where another class is
\* expected: a refresh or reset token as bearer token never gets past
\* authenticate, an access or reset token as the cookie never yields an access
\* token, and an access or refresh token never lets reset-password change
\* anything.
TokenClassesApart ==
    /\ [](\A tok \in TokenUniverse :
            /\ tok.sec # "access" =>
                  \A route \in Routes :
                      LET m == Middleware(route, users, Header("Bearer", tok), now, TRUE)
                      IN  ~Proceeds(m) /\ m.status = 401
            /\ tok.sec # "refresh" =>
                  LET r == refreshToken(users, tok, now, TRUE)
                  IN  r.status = 403 /\ r.accessToken = NoToken
            /\ tok.sec # "reset" =>
                  resetLookup(users, tok, now, TRUE).status = 400)
    /\ [][\A tok \in Presentable("reset"), np \in PasswordInputs, s \in Salts :
            (/\ resp'.op = "reset" /\ tok.sec # "reset"
             /\ ResetPassword(tok, np, s, TRUE))
            => resp'.status = 400 /\ users' = users]_vars

\* the access token login issued, still unexpired, came as the cookie and was
\* refused
AccessTokenAsCookieRefused ==
    /\ resp.op = "refresh" /\ resp.status = 403
    /\ held.access # NoToken /\ resp.presented = held.access
    /\ now < held.access.exp
    /\ users[held.access.sub] # NoUser

\* C25: a 500 response carries a generic message only: nothing taken from the
\* underlying error is in its body, in the middleware and in every handler.
InternalErrorsAreGeneric ==
    resp.status = 500 => resp.errors = "none"

\* C26: whenever reset-password answers 200, the account its token names
\* exists and holds the hash of the submitted new password, also when DELETE
\* /users/:id ran between the reset's lookup and its write.
ResetSuccessMeansStored ==
    [][\A c \in Clients, s \in Salts :
          (/\ resp'.op = "reset" /\ resp'.status = 200
           /\ inflight[c].op = "reset"
           /\ ResetWrite(c, s, TRUE))
          => /\ users'[inflight[c].token.sub] # NoUser
             /\ users'[inflight[c].token.sub].password
                    = BcryptHash(inflight[c].newPassword, s)]_vars

\* C27: no request changes a role: every account keeps the role it was created
\* with, register creates role "user" only, and a role sent in the body of
\* register or update is ignored; a password reset leaves the role alone too.
NoPrivilegeEscalation ==
    /\ [](/\ users[AdminId].role = "admin"
          /\ \A id \in Ids \ {AdminId} : users[id] # NoUser => users[id].role = "user"
          /\ \A id \in Ids, b \in UpdateBodies :
                users[id] # NoUser =>
                    /\ update(users, id, b, TRUE).user.role = users[id].role
                    /\ SetFields(users[id], ProfileFields(b)).role = users[id].role
          /\ \A id \in Ids, np \in Passwords, sa \in Salts :
                users[id] # NoUser =>
                    resetWrite(users, id, np, sa, TRUE).users[id].role = users[id].role
          /\ \A b \in Bodies, sa \in Salts :
                LET w == registerCreate(users, nextId, Destructure(b), sa, TRUE)
                IN  (nextId \in Ids /\ w.resp.status = 201) =>
                        w.users[nextId].role = "user")
    /\ [][\A id \in Ids :
            /\ (users[id] # NoUser /\ users'[id] # NoUser) =>
                  users'[id].role = users[id].role
            /\ (users[id] = NoUser /\ users'[id] # NoUser) =>
                  users'[id].role = "user"]_vars

\* the user's own profile update was served, her role what it was, next to an
\* account that register created
UpdateKeepsRole ==
    /\ resp.op = "update" /\ resp.status = 200
    /\ resp.user.id = JaneId /\ resp.user.role = "user"
    /\ users[JaneId].role = "user"
    /\ \E id \in Ids : id > JaneId /\ users[id] # NoUser /\ users[id].role = "user"

\* C28: an access token for an account comes only from a login with that
\* account's address and a password matching its current hash, or from a
\* refresh whose cookie verifies under the refresh secret and names that
\* account while it exists; no other operation returns one; and the account
\* authenticate attaches is the one the bearer token names.
Matches(pw, h) == \E sa \in Salts : h = BcryptHash(pw, sa)

AccessTokenIssuedOnlyTo ==
    /\ \A e \in EmailInputs, p \in PasswordInputs :
          LET r == login(users, e, p, now, TRUE)
          IN  r.accessToken # NoToken =>
                  /\ r.accessToken.sec = "access"
                  /\ r.accessToken.sub \in Ids
                  /\ users[r.accessToken.sub] # NoUser
                  /\ users[r.accessToken.sub].email = Lower(e)
                  /\ Matches(p, users[r.accessToken.sub].password)
    /\ \A ck \in TokenUniverse \cup {NoToken} :
          LET r == refreshToken(users, ck, now, TRUE)
          IN  r.accessToken # NoToken =>
                  /\ r.accessToken.sec = "access"
                  /\ ck.sec = "refresh" /\ now < ck.exp
                  /\ ck.sub \in Ids /\ users[ck.sub] # NoUser
                  /\ r.accessToken.sub = ck.sub
    /\ resp.op \notin {"login", "refresh"} => resp.accessToken = NoToken
    /\ (resp.op = "refresh" /\ resp.accessToken # NoToken) =>
          resp.accessToken.sub = resp.presented.sub
    /\ \A hdr \in HeaderUniverse :
          LET a == Authenticate(users, hdr, now, TRUE)
          IN  Proceeds(a) =>
                  /\ a.user.id = BearerToken(hdr).sub
                  /\ a.user = SansPassword(users[BearerToken(hdr).sub])

\* a refresh issued an access token for the account its cookie names, after
\* that account's password had been replaced
RefreshIssuedToSubject ==
    /\ resp.op = "refresh" /\ resp.status = 200
    /\ resp.presented = cookie /\ cookie # NoToken
    /\ resp.accessToken.sub = cookie.sub
    /\ held.access = resp.accessToken
    /\ ~Matches("secret1", users[cookie.sub].password)

\* C29: an account's status decides nothing about sessions: on two stores that
\* differ only in one account's status, login, authenticate, protect, refresh
\* and reset-password give the same outcome; an account that updateStatus set
\* inactive still logs in, authenticates and refreshes.
Flip(u, id) ==
    [u EXCEPT ![id].status = IF @ = "active" THEN "inactive" ELSE "active"]

\* a middleware run without the status of the account it attached
Outcome(run) ==
    [run EXCEPT !.user = IF run.user = NoUser THEN NoUser
                         ELSE [run.user EXCEPT !.status = "any"]]

StatusIsInert ==
    \A id \in Ids :
        users[id] # NoUser =>
            LET u2 == Flip(users, id)
            IN  /\ \A e \in EmailInputs, p \in PasswordInputs :
                      login(users, e, p, now, TRUE) = login(u2, e, p, now, TRUE)
                /\ \A hdr \in HeaderUniverse :
                      /\ Outcome(Authenticate(users, hdr, now, TRUE))
                             = Outcome(Authenticate(u2, hdr, now, TRUE))
                      /\ Outcome(Protect(users, hdr, now, TRUE))
                             = Outcome(Protect(u2, hdr, now, TRUE))
                /\ \A tok \in TokenUniverse \cup {NoToken} :
                      /\ refreshToken(users, tok, now, TRUE)
                             = refreshToken(u2, tok, now, TRUE)
                      /\ resetLookup(users, tok, now, TRUE)
                             = resetLookup(u2, tok, now, TRUE)
                /\ \A t \in Ids, np \in PasswordInputs, sa \in Salts :
                      LET w1 == resetWrite(users, t, np, sa, TRUE)
                          w2 == resetWrite(u2, t, np, sa, TRUE)
                      IN  w1.resp = w2.resp /\ w2.users = Flip(w1.users, id)

\* the user, set inactive by PATCH /users/:id/status, logged in and her tokens
\* are taken
InactiveLoggedIn ==
    /\ resp.op = "login" /\ resp.status = 200
    /\ resp.user.id = JaneId
    /\ users[JaneId].status = "inactive"
    /\ Admitted(users, held.access, now)
    /\ Refreshable(users, cookie, now)

\* C30: every account's current password has at least 6 characters, in every
\* reachable state: reset-password refuses a shorter newPassword and leaves
\* the stored hash as it was.
PasswordPolicyHolds ==
    \A id \in Ids :
        users[id] # NoUser => StrLen(users[id].password.of) >= 6

====
